---------------------------- MODULE Spec2Model ----------------------------
(***************************************************************************)
(* Model of the S3 backup script (src/script.py; src/myfile.py is the same *)
(* program before reformatting).  backup() checks the interpreter version, *)
(* runs send_files (bucket check, one pass over TECHNOLOGIES, per-file     *)
(* upload / delete / sleep, classification, run summary), sends the        *)
(* captured log by mail, prints it on failure, and closes the logger.      *)
(*                                                                         *)
(* The program is sequential: pc is the position inside backup().  What   *)
(* the program reads from its surroundings (the table entry of the current *)
(* iteration, the glob result, a file's mtime, the outcome of each call to *)
(* S3, the filesystem and the mail server) is drawn with \E in the step    *)
(* that reads it.  An exception no handler catches ends the run in         *)
(* pc = "crashed" with the exception's name in crash.                      *)
(***************************************************************************)
EXTENDS Integers, Sequences, FiniteSets, TLC

\* ------------------------------------------------------------------ bounds
MaxTech == 2
MaxFiles == 2

\* ------------------------------------------------------- program constants
DAYS_TO_CHECK == 5

\* Python's None in the days_to_keep field of an entry
None == -1

\* ------------------------------------------------------------ input domains
\* (todays_date - last_modified_date).days of a matched file
AgeChoices == {0, DAYS_TO_CHECK, DAYS_TO_CHECK + 1}

\* days_to_keep of a well-formed entry
DayChoices == {None, 0}

\* delete_option of a well-formed entry
OptionChoices == {"delete", "keep"}

\* Shapes of TECHNOLOGIES[path]: a list of 3, a non-empty list of another
\* length (["java", 90]), the empty list, and None.
ShapeChoices == {"list3", "list2", "empty", "none"}

\* One key/value pair of TECHNOLOGIES as the loop body sees it:
\*   shape   - shape of the value
\*   isabs   - os.path.isabs(path)
\*   pattern - os.path.basename(path) is non-empty
\*   days, option - fields 1 and 2 of a 3-list
WellFormed ==
    [shape : {"list3"}, isabs : {TRUE}, pattern : {TRUE},
     days : DayChoices, option : OptionChoices]

Malformed ==
    [shape : ShapeChoices \ {"list3"}, isabs : {TRUE}, pattern : {TRUE},
     days : {None}, option : {"delete"}]
    \cup [shape : {"list3"}, isabs : {FALSE}, pattern : {TRUE},
          days : {None}, option : {"delete"}]
    \cup [shape : {"list3"}, isabs : {TRUE}, pattern : {FALSE},
          days : {None}, option : {"delete"}]

EntryChoices == WellFormed \cup Malformed

NoEntry ==
    [shape |-> "unset", isabs |-> FALSE, pattern |-> FALSE,
     days |-> None, option |-> "unset"]

\* Outcomes of s3_client.head_bucket
BucketFailures == {"UNREACHABLE", "FORBIDDEN", "NOT_FOUND"}

BucketOutcomes ==
    {"OK"} \cup BucketFailures \cup {"OTHER_CLIENT_ERROR", "OTHER_EXCEPTION"}

\* Outcomes of os.remove
RemoveOutcomes == {"ok", "permission", "oserror"}

\* Outcomes of the SMTP session in send_email
MailFailures == {"GAIERROR", "TIMEOUT", "AUTH_FAILURE", "OTHER"}

MailOutcomes == {"OK"} \cup MailFailures

\* The file the inner loop is at: its age, and what happened to it so far.
\* key is the destination key passed to upload_file, "" before the call.
NoFile == [age |-> 0, upload |-> "none", remove |-> "none", key |-> ""]

VARIABLES
    pc,                     \* position in backup()
    crash,                  \* uncaught exception that ended the run, or "none"
    ntech,                  \* len(TECHNOLOGIES)
    todays_date,            \* TRUE once the local todays_date is bound
    bucket,                 \* outcome of head_bucket, "none" before the call
    total_technologies,
    successfully_uploaded,
    idx,                    \* number of entries of TECHNOLOGIES iterated
    entry,                  \* the entry of the current iteration
    nfiles,                 \* len(files_list)
    fidx,                   \* number of files of files_list iterated
    days,
    delete_option,
    files_sent,
    exception_files,
    undeleteable_files,
    cur,                    \* the current file
    in_window,              \* files of this technology that passed the age test
    sleeps,                 \* time.sleep calls in this technology
    upload_calls,           \* upload_file calls in this technology
    remove_calls,           \* os.remove calls in this technology
    removed,                \* files of this technology os.remove took off the disk
    log,                    \* output_buffer: the captured log records
    closed,                 \* output_buffer.close() has run
    email_calls,            \* calls of send_email
    mail,                   \* outcome of the SMTP session, "none" before it
    is_success,
    body,                   \* content of the message that was sent
    console                 \* what print() wrote

vars ==
    <<pc, crash, ntech, todays_date, bucket, total_technologies,
      successfully_uploaded, idx, entry, nfiles, fidx, days, delete_option,
      files_sent, exception_files, undeleteable_files, cur, in_window, sleeps,
      upload_calls, remove_calls, removed, log, closed, email_calls, mail, is_success, body, console>>

techVars ==
    <<entry, nfiles, fidx, days, delete_option, files_sent, exception_files,
      undeleteable_files, cur, in_window, sleeps, upload_calls, remove_calls,
      removed>>

mailVars == <<closed, email_calls, mail, is_success, body, console>>

\* One record of the logger
Line(level, msg, args) == [level |-> level, msg |-> msg, args |-> args]

Init ==
    /\ pc = "version_check"
    /\ crash = "none"
    /\ ntech \in 0..MaxTech
    /\ todays_date = FALSE
    /\ bucket = "none"
    /\ total_technologies = 0
    /\ successfully_uploaded = 0
    /\ idx = 0
    /\ entry = NoEntry
    /\ nfiles = 0
    /\ fidx = 0
    /\ days = None
    /\ delete_option = "unset"
    /\ files_sent = 0
    /\ exception_files = 0
    /\ undeleteable_files = 0
    /\ cur = NoFile
    /\ in_window = 0
    /\ sleeps = 0
    /\ upload_calls = 0
    /\ remove_calls = 0
    /\ removed = 0
    /\ log = <<>>
    /\ closed = FALSE
    /\ email_calls = 0
    /\ mail = "none"
    /\ is_success = FALSE
    /\ body = <<>>
    /\ console = <<>>

\* backup(), lines 262-271: init() and the interpreter version check
VersionCheck ==
    /\ pc = "version_check"
    /\ \E version_ok \in BOOLEAN :
         IF version_ok
         THEN /\ log' = Append(log, Line("INFO", "environment_created", <<>>))
              /\ todays_date' = TRUE
              /\ pc' = "head_bucket"
         ELSE /\ log' = log \o <<Line("ERROR", "python_version", <<>>),
                                 Line("ERROR", "zero_files_sent", <<>>)>>
              /\ todays_date' = FALSE
              /\ pc' = "email"
    /\ UNCHANGED <<crash, ntech, bucket, total_technologies,
                   successfully_uploaded, idx>>
    /\ UNCHANGED techVars
    /\ UNCHANGED mailVars


\* An uncaught exception: the run ends here, nothing after it executes.
Crash(exc) ==
    /\ pc' = "crashed"
    /\ crash' = exc

\* BucketProceeds with the 403 handler falling through to the loop
BucketProceedsOnForbidden(outcome) == outcome \in {"OK", "FORBIDDEN"}

\* send_files, lines 101-111: the else clause of the try statement runs only
\* when head_bucket raised nothing.
BucketProceeds(outcome) == outcome = "OK"

\* send_files, lines 103-110: what each handled head_bucket failure logs.  A
\* ClientError whose code is neither 403 nor 404 logs nothing.
BucketLog(outcome) ==
    CASE outcome = "UNREACHABLE" -> <<Line("ERROR", "endpoint_unreachable", <<>>)>>
      [] outcome = "FORBIDDEN" -> <<Line("ERROR", "forbidden_access", <<>>)>>
      [] outcome = "NOT_FOUND" -> <<Line("ERROR", "bucket_does_not_exist", <<>>)>>
      [] OTHER -> <<>>

\* EmptyTable with the test left out
EmptyTableNever(n) == FALSE

\* send_files, line 112: "if not TECHNOLOGIES"
EmptyTable(n) == n = 0

\* send_files, lines 98-115: the totals, the bucket check and the empty-table
\* test.  An exception of head_bucket that is neither EndpointConnectionError
\* nor ClientError (botocore's NoCredentialsError, for one) is not handled.
HeadBucket ==
    /\ pc = "head_bucket"
    /\ total_technologies' = ntech
    /\ successfully_uploaded' = 0
    /\ \E outcome \in BucketOutcomes :
         /\ bucket' = outcome
         /\ IF outcome = "OTHER_EXCEPTION"
            THEN /\ Crash("BotoCoreError")
                 /\ log' = log
            ELSE /\ crash' = crash
                 /\ IF BucketProceeds(outcome)
                    THEN IF EmptyTable(ntech)
                         THEN /\ log' = Append(log, Line("ERROR", "no_technologies", <<>>))
                              /\ pc' = "email"
                         ELSE /\ log' = log
                              /\ pc' = "for_tech"
                    ELSE /\ log' = log \o BucketLog(outcome)
                         /\ pc' = "summary"
    /\ UNCHANGED <<ntech, todays_date, idx>>
    /\ UNCHANGED techVars
    /\ UNCHANGED mailVars

\* EntryCheck with the os.path.isabs test of line 132 left out
EntryCheckNoAbsTest(e, n) ==
    CASE ~e.pattern -> "ValueError"
      [] e.pattern /\ e.shape = "none" -> "TypeError"
      [] e.pattern /\ e.shape = "empty" -> "IndexError"
      [] e.pattern /\ e.shape = "list2" -> "incorrect_value"
      [] e.pattern /\ e.shape = "list3" /\ n = 0 -> "no_files_found"
      [] OTHER -> "ok"

\* send_files, lines 118-143: what the head of the loop body does with the
\* entry e whose pattern matched n files.
\*   line 121: Path.glob("") raises ValueError when the pattern is empty
\*   line 124: TECHNOLOGIES[path][0] raises TypeError on None and IndexError
\*             on the empty list, before the value is validated at line 127
EntryCheck(e, n) ==
    CASE ~e.pattern -> "ValueError"
      [] e.pattern /\ e.shape = "none" -> "TypeError"
      [] e.pattern /\ e.shape = "empty" -> "IndexError"
      [] e.pattern /\ e.shape = "list2" -> "incorrect_value"
      [] e.pattern /\ e.shape = "list3" /\ ~e.isabs -> "incorrect_path"
      [] e.pattern /\ e.shape = "list3" /\ e.isabs /\ n = 0 -> "no_files_found"
      [] OTHER -> "ok"

EntryExceptions == {"ValueError", "TypeError", "IndexError"}

\* Level of the line a rejected entry leaves in the log (lines 128-142)
RejectLevel(r) == IF r = "no_files_found" THEN "WARNING" ELSE "ERROR"

\* EffectiveDays with "if not days" in place of "if days is None"
EffectiveDaysFalsy(d) == IF d = None \/ d = 0 THEN DAYS_TO_CHECK ELSE d

\* send_files, lines 148-149
EffectiveDays(d) == IF d = None THEN DAYS_TO_CHECK ELSE d

\* The locals of one technology are dead once its iteration ends (lines
\* 146-154 assign them again before any use); the next iteration starts from
\* cleared values.
ResetTech ==
    /\ nfiles' = 0
    /\ fidx' = 0
    /\ days' = None
    /\ delete_option' = "unset"
    /\ files_sent' = 0
    /\ exception_files' = 0
    /\ undeleteable_files' = 0
    /\ cur' = NoFile
    /\ in_window' = 0
    /\ sleeps' = 0
    /\ upload_calls' = 0
    /\ remove_calls' = 0
    /\ removed' = 0

\* send_files, lines 116-154: the head of "for path in TECHNOLOGIES" and the
\* validation of the entry; the loop ends when the table is exhausted.
ForTech ==
    /\ pc = "for_tech"
    /\ IF idx = ntech
       THEN /\ pc' = "summary"
            /\ entry' = NoEntry
            /\ ResetTech
            /\ UNCHANGED <<crash, idx, log>>
       ELSE \E e \in EntryChoices, n \in 0..MaxFiles :
              LET r == EntryCheck(e, n) IN
              /\ idx' = idx + 1
              /\ entry' = e
              /\ IF r \in EntryExceptions
                 THEN /\ Crash(r)
                      /\ log' = log
                      /\ ResetTech
                 ELSE /\ crash' = crash
                      /\ IF r = "ok"
                         THEN /\ log' = Append(log, Line("INFO", "starting_backup", <<>>))
                              /\ nfiles' = n
                              /\ fidx' = 0
                              /\ days' = EffectiveDays(e.days)
                              /\ delete_option' = e.option
                              /\ files_sent' = 0
                              /\ exception_files' = 0
                              /\ undeleteable_files' = 0
                              /\ cur' = NoFile
                              /\ in_window' = 0
                              /\ sleeps' = 0
                              /\ upload_calls' = 0
                              /\ remove_calls' = 0
                              /\ removed' = 0
                              /\ pc' = "for_file"
                         ELSE /\ log' = log \o <<Line("INFO", "starting_backup", <<>>),
                                                 Line(RejectLevel(r), r, <<>>)>>
                              /\ ResetTech
                              /\ pc' = "for_tech"
    /\ UNCHANGED <<ntech, todays_date, bucket, total_technologies,
                   successfully_uploaded>>
    /\ UNCHANGED mailVars


\* Configuration, lines 58-59.  A string that takes part in os.path.join is a
\* sequence of tokens in which every "/" is a token of its own.
SITE == <<"test13">>

HOSTNAME == <<"my_host">>

\* tech_name of a well-formed entry (line 64) and the base name of a matched
\* file (line 160)
TechName == <<"java">>

FileName == "A.class"

\* datetime.date.today() of the run, line 270
RunDate == [year |-> 2023, month |-> 11, day |-> 2]

\* The Gregorian calendar of datetime.date
IsLeap(y) == (y % 4 = 0 /\ y % 100 # 0) \/ y % 400 = 0

DaysInMonth(y, m) ==
    IF m = 2 THEN (IF IsLeap(y) THEN 29 ELSE 28)
    ELSE IF m \in {4, 6, 9, 11} THEN 30 ELSE 31

PrevDay(d) ==
    IF d.day > 1 THEN [d EXCEPT !.day = d.day - 1]
    ELSE IF d.month > 1
         THEN [year |-> d.year, month |-> d.month - 1,
               day |-> DaysInMonth(d.year, d.month - 1)]
         ELSE [year |-> d.year - 1, month |-> 12, day |-> 31]

RECURSIVE DateMinus(_, _)
DateMinus(d, n) == IF n = 0 THEN d ELSE DateMinus(PrevDay(d), n - 1)

\* send_files, lines 157-159: last_modified_date of a file whose
\* (todays_date - last_modified_date).days is age
MTimeDate(age) == DateMinus(RunDate, age)

\* posixpath.join (line 162): a component that starts with "/" discards what
\* precedes it; otherwise it is appended, after a "/" unless the path so far
\* is empty or ends with one.
RECURSIVE PathJoin(_)
PathJoin(parts) ==
    IF Len(parts) = 1 THEN parts[1]
    ELSE LET path == PathJoin(SubSeq(parts, 1, Len(parts) - 1))
             b == parts[Len(parts)]
         IN IF b # <<>> /\ b[1] = "/" THEN b
            ELSE IF path = <<>> \/ path[Len(path)] = "/" THEN path \o b
            ELSE path \o <<"/">> \o b

\* The text of a token sequence
RECURSIVE Text(_)
Text(tokens) == IF tokens = <<>> THEN "" ELSE tokens[1] \o Text(Tail(tokens))

\* DestinationKey with the year and month of the run date
DestinationKeyOfRunDate(site, tech, host, mdate, fname) ==
    Text(PathJoin(<<site, tech, host, <<ToString(RunDate.year)>>,
                    <<ToString(RunDate.month)>>>>) \o <<"/", fname>>)

\* send_files, lines 162-165: the key the file is uploaded under,
\* f"{destination_folder}/{file_name}"
DestinationKey(site, tech, host, mdate, fname) ==
    Text(PathJoin(<<site, tech, host, <<ToString(mdate.year)>>,
                    <<ToString(mdate.month)>>>>) \o <<"/", fname>>)

\* send_files, line 159: "File changed in given interval"
InWindow(age, d) == age <= d

\* AfterUpload with os.remove moved out of the else clause
AfterUploadAlwaysRemoves(ok, option) ==
    IF option = "delete" THEN "remove"
    ELSE IF ok THEN "sleep" ELSE "for_file"

\* AfterUpload with a failed upload tried again
AfterUploadRetriesFailure(ok, option) ==
    IF ok
    THEN IF option = "delete" THEN "remove" ELSE "sleep"
    ELSE "upload"

\* AfterUpload without the test of delete_option at line 172
AfterUploadIgnoresOption(ok, option) ==
    IF ok THEN "remove" ELSE "for_file"

\* UploadCounters with the except clause not counting the failure
UploadCountersDropFailure(ok, sent, failed) ==
    IF ok THEN <<sent + 1, failed>> ELSE <<sent, failed>>

\* send_files, lines 167 and 171: files_sent and exception_files after one
\* upload attempt
UploadCounters(ok, sent, failed) ==
    IF ok THEN <<sent + 1, failed>> ELSE <<sent, failed + 1>>

\* send_files, lines 161-179: where control goes after upload_file.  The
\* except clause (upload raised) falls out of the if statement; the else
\* clause goes on to os.remove under "delete" and to time.sleep otherwise.
AfterUpload(ok, option) ==
    IF ok
    THEN IF option = "delete" THEN "remove" ELSE "sleep"
    ELSE "for_file"

\* send_files, lines 156-160: the head of "for file_path in files_list", the
\* stat of the file and the age test; the loop ends when the list is exhausted.
ForFile ==
    /\ pc = "for_file"
    /\ IF fidx = nfiles
       THEN /\ pc' = "classify"
            /\ UNCHANGED <<fidx, cur, in_window>>
       ELSE \E age \in AgeChoices :
              /\ fidx' = fidx + 1
              /\ cur' = [age |-> age, upload |-> "none", remove |-> "none",
                          key |-> ""]
              /\ IF InWindow(age, days)
                 THEN /\ in_window' = in_window + 1
                      /\ pc' = "upload"
                 ELSE /\ in_window' = in_window
                      /\ pc' = "for_file"
    /\ UNCHANGED <<crash, ntech, todays_date, bucket, total_technologies,
                   successfully_uploaded, idx, entry, nfiles, days,
                   delete_option, files_sent, exception_files,
                   undeleteable_files, sleeps, upload_calls, remove_calls,
                   removed, log>>
    /\ UNCHANGED mailVars

\* send_files, lines 161-171: upload_file and the two counters.  Every
\* exception of the upload is caught (except Exception).
Upload ==
    /\ pc = "upload"
    /\ \E ok \in BOOLEAN :
         /\ cur' = [cur EXCEPT !.upload = IF ok THEN "ok" ELSE "failed",
                               !.key = DestinationKey(SITE, TechName, HOSTNAME,
                                                      MTimeDate(cur.age), FileName)]
         /\ upload_calls' = upload_calls + 1
         /\ files_sent' = UploadCounters(ok, files_sent, exception_files)[1]
         /\ exception_files' = UploadCounters(ok, files_sent, exception_files)[2]
         /\ log' = IF ok THEN log
                   ELSE Append(log, Line("ERROR", "upload_error", <<>>))
         /\ pc' = AfterUpload(ok, delete_option)
    /\ UNCHANGED <<crash, ntech, todays_date, bucket, total_technologies,
                   successfully_uploaded, idx, entry, nfiles, fidx, days,
                   delete_option, undeleteable_files, in_window, sleeps,
                   remove_calls, removed>>
    /\ UNCHANGED mailVars

\* send_files, lines 172-178: os.remove.  Only PermissionError is handled; any
\* other OSError (FileNotFoundError when the file is already gone) is raised in
\* the else clause of the upload's try statement, which no handler covers.
Remove ==
    /\ pc = "remove"
    /\ \E r \in RemoveOutcomes :
         /\ cur' = [cur EXCEPT !.remove = r]
         /\ remove_calls' = remove_calls + 1
         /\ removed' = IF r = "ok" THEN removed + 1 ELSE removed
         /\ CASE r = "ok" ->
                  /\ UNCHANGED <<crash, undeleteable_files, log>>
                  /\ pc' = "sleep"
              [] r = "permission" ->
                  /\ undeleteable_files' = undeleteable_files + 1
                  /\ log' = Append(log, Line("ERROR", "permission_denied", <<>>))
                  /\ crash' = crash
                  /\ pc' = "sleep"
              [] r = "oserror" ->
                  /\ Crash("OSError")
                  /\ UNCHANGED <<undeleteable_files, log>>
    /\ UNCHANGED <<ntech, todays_date, bucket, total_technologies,
                   successfully_uploaded, idx, entry, nfiles, fidx, days,
                   delete_option, files_sent, exception_files, in_window,
                   sleeps, upload_calls>>
    /\ UNCHANGED mailVars

\* send_files, line 179: time.sleep(SLEEP_TIME), the last statement of the
\* else clause of the upload's try statement.
Sleep ==
    /\ pc = "sleep"
    /\ sleeps' = sleeps + 1
    /\ pc' = "for_file"
    /\ UNCHANGED <<crash, ntech, todays_date, bucket, total_technologies,
                   successfully_uploaded, idx, entry, nfiles, fidx, days,
                   delete_option, files_sent, exception_files,
                   undeleteable_files, cur, in_window, upload_calls,
                   remove_calls, removed, log>>
    /\ UNCHANGED mailVars


\* Classification reporting undeletable files as failed uploads
ClassificationUndeletableAsFailure(sent, failed, undeletable, option) ==
    IF failed + undeletable = 0
    THEN IF sent = 0
         THEN [level |-> "WARNING", msg |-> "no_files_in_interval",
               args |-> <<>>, inc |-> 0]
         ELSE [level |-> "INFO", msg |-> "uploaded_and_deleted",
               args |-> <<sent, sent>>, inc |-> 1]
    ELSE [level |-> "WARNING", msg |-> "upload_failures",
          args |-> <<sent, failed + undeletable, undeletable>>, inc |-> 0]

\* Classification without the test of undeleteable_files at line 187
ClassificationIgnoresUndeletable(sent, failed, undeletable, option) ==
    IF failed = 0
    THEN IF sent = 0
         THEN [level |-> "WARNING", msg |-> "no_files_in_interval",
               args |-> <<>>, inc |-> 0]
         ELSE IF option = "delete"
              THEN [level |-> "INFO", msg |-> "uploaded_and_deleted",
                    args |-> <<sent, sent>>, inc |-> 1]
              ELSE [level |-> "INFO", msg |-> "uploaded_kept",
                    args |-> <<sent>>, inc |-> 1]
    ELSE IF option = "delete"
         THEN [level |-> "WARNING", msg |-> "upload_failures",
               args |-> <<sent, failed, undeletable>>, inc |-> 0]
         ELSE [level |-> "WARNING", msg |-> "upload_failures_kept",
               args |-> <<sent, failed>>, inc |-> 0]

\* Classification counting a technology with failed uploads as successful
\* whenever some upload succeeded
ClassificationCountsPartial(sent, failed, undeletable, option) ==
    IF sent > 0 /\ undeletable = 0
    THEN [level |-> "INFO", msg |-> "uploaded_and_deleted",
          args |-> <<sent, sent>>, inc |-> 1]
    ELSE [level |-> "WARNING", msg |-> "upload_failures",
          args |-> <<sent, failed, undeletable>>, inc |-> 0]

\* send_files, lines 181-211: the line logged for a technology from its three
\* counters and its delete option, and whether it counts as successfully
\* uploaded (line 188).
Classification(sent, failed, undeletable, option) ==
    IF failed = 0
    THEN IF sent = 0
         THEN [level |-> "WARNING", msg |-> "no_files_in_interval",
               args |-> <<>>, inc |-> 0]
         ELSE IF undeletable = 0
              THEN IF option = "delete"
                   THEN [level |-> "INFO", msg |-> "uploaded_and_deleted",
                         args |-> <<sent, sent>>, inc |-> 1]
                   ELSE [level |-> "INFO", msg |-> "uploaded_kept",
                         args |-> <<sent>>, inc |-> 1]
              ELSE [level |-> "WARNING", msg |-> "uploaded_but_undeletable",
                    args |-> <<sent, undeletable>>, inc |-> 0]
    ELSE IF option = "delete"
         THEN [level |-> "WARNING", msg |-> "upload_failures",
               args |-> <<sent, failed, undeletable>>, inc |-> 0]
         ELSE [level |-> "WARNING", msg |-> "upload_failures_kept",
               args |-> <<sent, failed>>, inc |-> 0]

\* send_files, lines 181-211, at the end of one iteration over TECHNOLOGIES
Classify ==
    /\ pc = "classify"
    /\ LET c == Classification(files_sent, exception_files,
                               undeleteable_files, delete_option) IN
         /\ successfully_uploaded' = successfully_uploaded + c.inc
         /\ log' = Append(log, Line(c.level, c.msg, c.args))
    /\ pc' = "for_tech"
    /\ UNCHANGED <<crash, ntech, todays_date, bucket, total_technologies, idx>>
    /\ UNCHANGED techVars
    /\ UNCHANGED mailVars

\* SummaryLines with ">=" in place of ">" at line 216
SummaryLinesWarnsOnEqual(total, successful) ==
    <<Line("INFO", "total_technologies", <<total>>),
      Line("INFO", "successfully_uploaded", <<successful>>),
      Line(IF total >= successful THEN "WARNING" ELSE "INFO",
           "issues_in", <<total - successful>>)>>

\* send_files, lines 213-221: the three lines of the run summary
SummaryLines(total, successful) ==
    <<Line("INFO", "total_technologies", <<total>>),
      Line("INFO", "successfully_uploaded", <<successful>>),
      Line(IF total > successful THEN "WARNING" ELSE "INFO",
           "issues_in", <<total - successful>>)>>

\* send_files, lines 213-221; send_files returns to backup()
Summary ==
    /\ pc = "summary"
    /\ log' = log \o SummaryLines(total_technologies, successfully_uploaded)
    /\ pc' = "email"
    /\ UNCHANGED <<crash, ntech, todays_date, bucket, total_technologies,
                   successfully_uploaded, idx>>
    /\ UNCHANGED techVars
    /\ UNCHANGED mailVars

\* backup(), line 272
AnnounceEmail ==
    /\ pc = "email"
    /\ log' = Append(log, Line("INFO", "sending_email", <<>>))
    /\ pc' = "send_email"
    /\ UNCHANGED <<crash, ntech, todays_date, bucket, total_technologies,
                   successfully_uploaded, idx>>
    /\ UNCHANGED techVars
    /\ UNCHANGED mailVars

\* send_email, lines 247 and 257: the value returned for an SMTP outcome
MailResult(outcome) == outcome = "OK"

\* What send_email logs for each failure (lines 248-255)
MailLog(outcome) ==
    CASE outcome = "GAIERROR" -> <<Line("ERROR", "no_internet_or_invalid_host", <<>>)>>
      [] outcome = "TIMEOUT" -> <<Line("ERROR", "operation_timed_out", <<>>)>>
      [] outcome = "AUTH_FAILURE" -> <<Line("ERROR", "incorrect_credentials", <<>>)>>
      [] outcome = "OTHER" -> <<Line("ERROR", "exception_text", <<>>)>>
      [] OTHER -> <<>>

\* backup(), line 273, and send_email, lines 234-257.  The call reads the
\* local todays_date, which is bound only on the branch that passed the
\* version check: reading it unbound raises UnboundLocalError before
\* send_email is entered.
SendEmail ==
    /\ pc = "send_email"
    /\ IF ~todays_date
       THEN /\ Crash("UnboundLocalError")
            /\ UNCHANGED <<log, email_calls, mail, is_success, body>>
       ELSE \E outcome \in MailOutcomes :
              /\ email_calls' = email_calls + 1
              /\ mail' = outcome
              /\ is_success' = MailResult(outcome)
              /\ body' = IF outcome = "OK" THEN log ELSE body
              /\ log' = log \o MailLog(outcome)
              /\ pc' = "dispatch"
              /\ crash' = crash
    /\ UNCHANGED <<ntech, todays_date, bucket, total_technologies,
                   successfully_uploaded, idx, closed, console>>
    /\ UNCHANGED techVars

\* PrintsReport with the test inverted
PrintsReportInverted(success) == success

\* backup(), line 274: the report is printed when send_email returned False
PrintsReport(success) == ~success

\* backup(), lines 274-279
Dispatch ==
    /\ pc = "dispatch"
    /\ IF PrintsReport(is_success)
       THEN /\ log' = Append(log, Line("ERROR", "unable_to_send_email", <<>>))
            /\ console' = Append(console, [kind |-> "report", text |-> log'])
       ELSE /\ log' = log
            /\ console' = Append(console, [kind |-> "confirmation", text |-> <<>>])
    /\ pc' = "close"
    /\ UNCHANGED <<crash, ntech, todays_date, bucket, total_technologies,
                   successfully_uploaded, idx, closed, email_calls, mail,
                   is_success, body>>
    /\ UNCHANGED techVars

\* backup(), line 280, and close_logger, lines 224-231
CloseLogger ==
    /\ pc = "close"
    /\ closed' = TRUE
    /\ pc' = "done"
    /\ UNCHANGED <<crash, ntech, todays_date, bucket, total_technologies,
                   successfully_uploaded, idx, log, email_calls, mail,
                   is_success, body, console>>
    /\ UNCHANGED techVars

Next ==
    \/ VersionCheck
    \/ HeadBucket
    \/ ForTech
    \/ ForFile
    \/ Upload
    \/ Remove
    \/ Sleep
    \/ Classify
    \/ Summary
    \/ AnnounceEmail
    \/ SendEmail
    \/ Dispatch
    \/ CloseLogger

Spec == Init /\ [][Next]_vars

\* The run has ended, normally or by an uncaught exception
Ended == pc \in {"done", "crashed"}

TypeOK ==
    /\ pc \in {"version_check", "head_bucket", "for_tech", "for_file", "upload",
               "remove", "sleep", "classify", "summary", "email", "send_email",
               "dispatch", "close", "done", "crashed"}
    /\ ntech \in 0..MaxTech
    /\ idx \in 0..ntech
    /\ fidx \in 0..nfiles
    /\ nfiles \in 0..MaxFiles
    /\ successfully_uploaded \in 0..idx
    /\ email_calls \in 0..1


\* ------------------------------------------------------------------ claims

\* Some line of the captured log carries message msg
Logged(msg) == \E i \in DOMAIN log : log[i].msg = msg

\* The report reached a reader: it was the body of the sent message, or it
\* was printed to the console
ReportDelivered ==
    \/ mail = "OK" /\ body # <<>>
    \/ \E i \in DOMAIN console : console[i].kind = "report"

\* C1: os.remove is reached for a file only after upload_file returned for
\* that file without raising; a file whose upload failed is never deleted.
C1_DeleteOnlyAfterUploadSuccess ==
    (pc = "remove" \/ cur.remove # "none") => cur.upload = "ok"

C1_Witness == cur.upload = "ok" /\ cur.remove = "ok" /\ pc = "sleep"

\* C2: every run that ends has called send_email exactly once and has its
\* report emailed or printed.
C2_ReportDispatchedExactlyOnce ==
    Ended => (email_calls = 1 /\ ReportDelivered)

\* C3: when all files of a technology have been processed, the number of
\* pauses equals the number of upload attempts, failed ones included.
C3_PauseAfterEveryAttempt ==
    pc = "classify" => sleeps = files_sent + exception_files

\* C4: after dispatch, a failed send_email means is_success is false and the
\* console holds the full captured log; a successful one means the console
\* holds only the confirmation line.
C4_ConsoleFallback ==
    pc \in {"close", "done"} =>
        /\ mail \in MailFailures =>
             /\ ~is_success
             /\ console = <<[kind |-> "report", text |-> log]>>
        /\ mail = "OK" =>
             /\ is_success
             /\ console = <<[kind |-> "confirmation", text |-> <<>>]>>

C4_Witness ==
    /\ pc = "done"
    /\ mail = "AUTH_FAILURE"
    /\ Len(console) = 1
    /\ console[1].kind = "report"
    /\ Len(console[1].text) > 3

\* The run is past send_files
PastSendFiles == pc \in {"email", "send_email", "dispatch", "close", "done"}

C7_CountersCoverInWindowFiles ==
    pc = "classify" => files_sent + exception_files = in_window

C7_Witness ==
    /\ pc = "classify"
    /\ files_sent = 1
    /\ exception_files = 1
    /\ in_window = 2

\* The classification line of the technology just classified
LastLine == log[Len(log)]

\* C8: successfully_uploaded changes only in the classification step, by one,
\* and exactly when the technology had an in-window file, no failed upload
\* and no failed delete; the classification line is INFO in that case and
\* WARNING in every other.
C8_FullySuccessfulExactly ==
    [][ LET counted == /\ pc = "classify"
                       /\ in_window > 0
                       /\ exception_files = 0
                       /\ undeleteable_files = 0
        IN /\ successfully_uploaded' =
                  IF counted THEN successfully_uploaded + 1
                  ELSE successfully_uploaded
           /\ pc = "classify" =>
                  /\ Len(log') = Len(log) + 1
                  /\ log'[Len(log')].level = IF counted THEN "INFO" ELSE "WARNING"
      ]_vars

C8_Witness ==
    /\ pc = "for_tech"
    /\ successfully_uploaded = 1
    /\ in_window = 2
    /\ files_sent = 2
    /\ LastLine.level = "INFO"

\* C9: a file is uploaded (and so possibly deleted) only if its age is at
\* most the entry's own window, or DAYS_TO_CHECK when the entry's window is
\* None; a window of 0 stays 0.
C9_UploadOnlyInWindow ==
    (pc \in {"upload", "remove", "sleep"} \/ cur.upload # "none"
        \/ cur.remove # "none") =>
        cur.age <= (IF entry.days = None THEN DAYS_TO_CHECK ELSE entry.days)

C9_Witness ==
    /\ entry.days = 0
    /\ fidx > 0
    /\ cur.age = DAYS_TO_CHECK
    /\ cur.upload = "none"
    /\ pc = "for_file"

\* C10: a delete that fails with an error other than permission-denied does
\* not end the run abnormally.
C10_OtherDeleteErrorSurvived ==
    cur.remove = "oserror" => (pc # "crashed" /\ crash = "none")


\* C11: an entry whose value is not a list of three fields (a list of another
\* length, the empty list, None) leaves a configuration-error line in the
\* log, gets no file processed, and the loop goes on to the next entry.
C11_MalformedEntryRejected ==
    entry.shape \in {"list2", "empty", "none"} =>
        /\ pc = "for_tech"
        /\ crash = "none"
        /\ LastLine = Line("ERROR", "incorrect_value", <<>>)
        /\ cur = NoFile

\* C12: an entry whose path is not absolute leaves an error line in the log,
\* none of its files is uploaded or deleted, and the loop goes on to the next
\* entry.
C12_NonAbsoluteSkipped ==
    (entry.shape = "list3" /\ ~entry.isabs) =>
        /\ pc = "for_tech"
        /\ crash = "none"
        /\ LastLine = Line("ERROR", "incorrect_path", <<>>)
        /\ cur = NoFile
        /\ in_window = 0
        /\ files_sent = 0 /\ exception_files = 0 /\ undeleteable_files = 0

C12_Witness ==
    /\ entry.shape = "list3"
    /\ ~entry.isabs
    /\ idx = 1
    /\ ntech = 2
    /\ pc = "for_tech"

\* C13: a permission-denied delete adds one to undeleteable_files and leaves
\* files_sent (which already counts the file) and exception_files alone; a
\* technology with undeletable files and no failed upload is classified by
\* the "uploaded but undeletable" warning and is not counted as successful.
C13_DeleteFailureIsNotUploadFailure ==
    [][ /\ (pc = "remove" /\ cur'.remove = "permission") =>
              /\ cur.upload = "ok"
              /\ files_sent >= 1
              /\ undeleteable_files' = undeleteable_files + 1
              /\ files_sent' = files_sent
              /\ exception_files' = exception_files
              /\ pc' = "sleep"
        /\ (pc = "classify" /\ exception_files = 0 /\ undeleteable_files > 0) =>
              /\ log'[Len(log')] =
                    Line("WARNING", "uploaded_but_undeletable",
                         <<files_sent, undeleteable_files>>)
              /\ successfully_uploaded' = successfully_uploaded
      ]_vars

C13_Witness ==
    /\ pc = "for_tech"
    /\ files_sent = 2
    /\ exception_files = 0
    /\ undeleteable_files = 1
    /\ LastLine.msg = "uploaded_but_undeletable"

C16_ClosedAfterDispatchOnEveryPath ==
    /\ closed => (pc = "done" /\ Len(console) = 1)
    /\ Ended => closed

\* C17: the run summary logs the table size and successfully_uploaded, and
\* the "issues" line with their difference N, as a warning exactly when
\* successfully_uploaded is below the table size and as information with
\* N = 0 otherwise; iterating an entry, skipped or not, never changes the
\* total, and skipping one never changes successfully_uploaded.
C17_RunSummary ==
    /\ [](pc = "email" /\ Logged("total_technologies") =>
            LET n == Len(log) IN
            /\ log[n - 2] = Line("INFO", "total_technologies", <<ntech>>)
            /\ log[n - 1] = Line("INFO", "successfully_uploaded",
                                 <<successfully_uploaded>>)
            /\ log[n].msg = "issues_in"
            /\ log[n].args = <<ntech - successfully_uploaded>>
            /\ log[n].level = "WARNING" <=> successfully_uploaded < ntech
            /\ log[n].level = "INFO" <=> log[n].args = <<0>>)
    /\ [][ /\ pc \in {"for_tech", "for_file", "upload", "remove", "sleep",
                      "classify", "summary"} =>
                 total_technologies' = total_technologies
           /\ pc = "for_tech" => successfully_uploaded' = successfully_uploaded
         ]_vars

C17_Witness ==
    /\ pc = "email"
    /\ ntech = 2
    /\ successfully_uploaded = 1
    /\ LastLine = Line("WARNING", "issues_in", <<1>>)


\* C15: a successfully uploaded file is stored under
\* site/tech_name/hostname/year/month/file_name with the year and month of
\* the file's own modification date (month not zero-padded), not of the run
\* date; for site "s", technology "java", host "h", mtime 2023-11-02 and
\* file "A.class" the key is "s/java/h/2023/11/A.class".
C15_DestinationKey ==
    /\ cur.upload = "ok" =>
          cur.key = CASE cur.age = 0 -> "test13/java/my_host/2023/11/A.class"
                      [] cur.age = DAYS_TO_CHECK ->
                             "test13/java/my_host/2023/10/A.class"
                      [] OTHER -> "not uploaded"
    /\ DestinationKey(<<"s">>, <<"java">>, <<"h">>,
                      [year |-> 2023, month |-> 11, day |-> 2], "A.class")
           = "s/java/h/2023/11/A.class"

C15_Witness ==
    /\ cur.upload = "ok"
    /\ cur.age = DAYS_TO_CHECK
    /\ RunDate.month = 11
    /\ cur.key = "test13/java/my_host/2023/10/A.class"

\* C18: every in-window file gets exactly one upload_file call and at most
\* one os.remove call; after a failed upload or a permission-denied delete
\* the loop goes on with the remaining files and technologies.
C18_OneAttemptPerFile ==
    /\ pc = "upload" => cur.upload = "none"
    /\ pc = "remove" => cur.remove = "none"
    /\ upload_calls = in_window - (IF pc = "upload" THEN 1 ELSE 0)
    /\ remove_calls <= files_sent
    /\ pc = "classify" => (fidx = nfiles /\ upload_calls = in_window)
    /\ cur.upload = "failed" =>
          (pc \in {"for_file", "classify", "for_tech"} /\ crash = "none")
    /\ cur.remove = "permission" =>
          (pc \in {"sleep", "for_file", "classify", "for_tech"} /\ crash = "none")

C18_Witness ==
    /\ pc = "classify"
    /\ fidx = 2
    /\ exception_files = 1
    /\ undeleteable_files = 1
    /\ upload_calls = 2
    /\ remove_calls = 1

\* C19: when the line "Successfully uploaded N files ... Successfully deleted
\* N files" has just been logged for a technology, os.remove was called for
\* N files of it and took all N off the disk, with N = files_sent.
C19_DeletedCountIsExact ==
    (pc = "for_tech" /\ nfiles > 0 /\ LastLine.msg = "uploaded_and_deleted") =>
        /\ delete_option = "delete"
        /\ files_sent > 0
        /\ LastLine.args = <<files_sent, files_sent>>
        /\ remove_calls = files_sent
        /\ removed = files_sent
        /\ undeleteable_files = 0

C19_Witness ==
    /\ pc = "for_tech"
    /\ nfiles = 2
    /\ LastLine = Line("INFO", "uploaded_and_deleted", <<2, 2>>)
    /\ removed = 2

\* C20: under a delete option other than "delete" os.remove is never called,
\* undeleteable_files stays 0 and no file of the technology leaves the disk.
C20_KeepNeverDeletes ==
    delete_option = "keep" =>
        /\ pc # "remove"
        /\ cur.remove = "none"
        /\ remove_calls = 0
        /\ removed = 0
        /\ undeleteable_files = 0

C20_Witness ==
    /\ delete_option = "keep"
    /\ pc = "classify"
    /\ files_sent = 1
    /\ exception_files = 1
    /\ removed = 0

\* C21: after a failed interpreter version check no file is uploaded or
\* deleted, the two version-error lines are in the captured log, and the run
\* does not end abnormally: it ends with send_email called, the report
\* emailed or printed, and the logger closed.
C21_VersionFailureStillDispatches ==
    Logged("python_version") =>
        /\ Logged("zero_files_sent")
        /\ bucket = "none" /\ idx = 0 /\ cur = NoFile
        /\ upload_calls = 0 /\ remove_calls = 0
        /\ crash = "none"
        /\ Ended => (pc = "done" /\ email_calls = 1 /\ ReportDelivered /\ closed)

=============================================================================
